---- MODULE Spec2Model ----
(***************************************************************************)
(* AgentScheduler (src/src/scheduler/scheduler.ts): a keyed registry of    *)
(* job records, a running flag, and one setInterval timer per armed job.   *)
(* Job records are heap objects: the registry maps an id to a reference,   *)
(* and a timer's callback closes over the record it was armed for, not     *)
(* over the id.  Optional fields (lastRun, intervalId) and Map lookups are *)
(* sets of at most one element: {} is undefined, {x} is the value x.       *)
(***************************************************************************)
EXTENDS Integers, Sequences, FiniteSets, TLC

\* ------------------------------------------------------------ bounds
\* the runs explored take at most MaxSteps state-changing steps
MaxSteps == 6

\* the schedule strings interpreted have at most MaxLen characters
MaxLen == 3

\* the unbounded runs construct at most MaxJobs job records
MaxJobs == 2

Ids == {"a", "b"}
Names == {"Job1"}
Schedules == {<<"1", "m">>}
Actions == {"action"}

VARIABLES
    jobs,        \* the Map id -> job reference, entries in insertion order
    running,     \* the scheduler's running flag
    heap,        \* the job records ever constructed, a reference is an index
    timers,      \* the environment's active interval timers, by handle
    inflight,    \* started invocations of job.action() that have not settled
    now,         \* Date.now()
    removed,     \* records whose id a successful removeJob has been called on
    thrown,      \* whether an error has escaped an operation or a timer callback
    steps,       \* how many steps the caller and the event loop have taken
    lastOp       \* the last operation called, with its id and the value it returned

state == <<jobs, running, heap, timers, inflight, now, removed, thrown>>

vars == <<state, steps, lastOp>>

\* ------------------------------------------------------------ values
JobStatus == {"pending", "running", "completed", "failed", "cancelled"}

Refs == 1..Len(heap)

\* ------------------------------------------------------------ Map<string, ScheduledJob>
MapIndex(m, k) == {i \in DOMAIN m : m[i].key = k}

MapHas(m, k) == MapIndex(m, k) # {}

MapGet(m, k) == {m[i].value : i \in MapIndex(m, k)}

MapSet(m, k, v) ==
    IF MapHas(m, k)
    THEN [i \in DOMAIN m |-> IF m[i].key = k THEN [key |-> k, value |-> v] ELSE m[i]]
    ELSE Append(m, [key |-> k, value |-> v])

MapDelete(m, k) == SelectSeq(m, LAMBDA e : e.key # k)

MapValues(m) == [i \in DOMAIN m |-> m[i].value]

\* ------------------------------------------------------------ parseSchedule
Digit == {"0", "1", "2", "3", "4", "5", "6", "7", "8", "9"}

Unit == {"m", "h", "d"}

DigitVal(c) ==
    CASE c = "0" -> 0 [] c = "1" -> 1 [] c = "2" -> 2 [] c = "3" -> 3 [] c = "4" -> 4
      [] c = "5" -> 5 [] c = "6" -> 6 [] c = "7" -> 7 [] c = "8" -> 8 [] c = "9" -> 9

AllDigits(s) == \A i \in DOMAIN s : s[i] \in Digit

\* the match of the pattern without its end anchor, /^(\d+)(m|h|d)?/
ScheduleMatchPrefix(s) ==
    LET lead == {k \in 1..Len(s) : AllDigits(SubSeq(s, 1, k))} IN
    IF lead = {} THEN {}
    ELSE LET k == CHOOSE x \in lead : \A y \in lead : y <= x IN
         {[digits |-> SubSeq(s, 1, k),
           unit |-> IF k < Len(s) /\ s[k + 1] \in Unit THEN {s[k + 1]} ELSE {}]}

\* schedule.match(/^(\d+)(m|h|d)?$/): {} for no match, else {[value, unit]}
ScheduleMatch(s) ==
    IF Len(s) >= 1 /\ AllDigits(s)
    THEN {[digits |-> s, unit |-> {}]}
    ELSE IF Len(s) >= 2 /\ AllDigits(SubSeq(s, 1, Len(s) - 1)) /\ s[Len(s)] \in Unit
         THEN {[digits |-> SubSeq(s, 1, Len(s) - 1), unit |-> {s[Len(s)]}]}
         ELSE {}

RECURSIVE parseInt(_)
parseInt(s) ==
    IF s = <<>> THEN 0 ELSE parseInt(SubSeq(s, 1, Len(s) - 1)) * 10 + DigitVal(s[Len(s)])

parseSchedule(schedule) ==
    LET match == ScheduleMatch(schedule) IN
    IF match = {} THEN 60000
    ELSE LET m == CHOOSE x \in match : TRUE
             value == parseInt(m.digits)
             unit == IF m.unit = {} THEN "m" ELSE CHOOSE u \in m.unit : TRUE
         IN CASE unit = "m" -> value * 60 * 1000
              [] unit = "h" -> value * 60 * 60 * 1000
              [] unit = "d" -> value * 24 * 60 * 60 * 1000
              [] OTHER -> value * 60 * 1000

calculateNextRun(schedule) == now + parseSchedule(schedule)

\* the clock advances one minute at a time
TickMs == parseSchedule(<<"1", "m">>)

\* ------------------------------------------------------------ environment timers
\* clearInterval(handle): the timer, if still active, never calls back again
clearInterval(tm, handle) == [h \in (DOMAIN tm) \ handle |-> tm[h]]

\* The handle setInterval returns when called from startJob(job). Handles are
\* opaque and only ever passed to clearInterval, so the new one is any handle
\* that is neither active nor still stored on another record; the least such.
NewHandle(st, job) ==
    LET used == (DOMAIN st.timers) \cup
                UNION {st.heap[r].intervalId : r \in (DOMAIN st.heap) \ {job}}
    IN CHOOSE h \in 1..(Cardinality(used) + 1) :
          /\ h \notin used
          /\ \A g \in 1..(h - 1) : g \in used

\* setInterval(callback closing over job, interval), returning handle h
setInterval(tm, h, job, interval) ==
    [x \in (DOMAIN tm) \cup {h} |->
        IF x = h THEN [job |-> job, interval |-> interval, due |-> now + interval]
        ELSE tm[x]]

\* ------------------------------------------------------------ startJob
\* startJob without lines 135-137: the timer already armed is not disarmed
startJobNoClear(st, job) ==
    LET interval == parseSchedule(st.heap[job].schedule)
        h == NewHandle(st, job)
    IN [heap |-> [st.heap EXCEPT ![job].intervalId = {h},
                                 ![job].nextRun = now + interval],
        timers |-> setInterval(st.timers, h, job, interval)]

\* st is the part of the state startJob reads and writes
startJob(st, job) ==
    LET cleared == [st EXCEPT !.timers = clearInterval(st.timers, st.heap[job].intervalId)]
        interval == parseSchedule(st.heap[job].schedule)
        h == NewHandle(cleared, job)
    IN [heap |-> [st.heap EXCEPT ![job].intervalId = {h},
                                 ![job].nextRun = now + interval],
        timers |-> setInterval(cleared.timers, h, job, interval)]

Store == [heap |-> heap, timers |-> timers]

SetStore(st) ==
    /\ heap' = st.heap
    /\ timers' = st.timers

\* ------------------------------------------------------------ operations
\* An operation's last parameter, ret, is the value it returns.
NewJob(id, name, schedule, action) ==
    [id |-> id, name |-> name, schedule |-> schedule, action |-> action,
     enabled |-> TRUE, status |-> "pending", lastRun |-> {},
     nextRun |-> calculateNextRun(schedule), intervalId |-> {}]

\* addJob without lines 32-34: the new job is not armed while running
addJobNeverArms(id, name, schedule, action, ret) ==
    LET job == Len(heap) + 1
    IN /\ jobs' = MapSet(jobs, id, job)
       /\ heap' = Append(heap, NewJob(id, name, schedule, action))
       /\ ret = job
       /\ UNCHANGED <<running, timers, inflight, now, removed, thrown>>

addJob(id, name, schedule, action, ret) ==
    LET job == Len(heap) + 1
        st == [Store EXCEPT !.heap = Append(heap, NewJob(id, name, schedule, action))]
    IN /\ jobs' = MapSet(jobs, id, job)
       /\ SetStore(IF running THEN startJob(st, job) ELSE st)
       /\ ret = job
       /\ UNCHANGED <<running, inflight, now, removed, thrown>>

\* removeJob without the test on line 44: job.intervalId is read of undefined
removeJobNoGuard(id, ret) ==
    LET found == MapGet(jobs, id) IN
    IF found = {}
    THEN /\ ret = FALSE
         /\ thrown' = TRUE
         /\ UNCHANGED <<jobs, running, heap, timers, inflight, now, removed>>
    ELSE LET job == CHOOSE r \in found : TRUE IN
         /\ timers' = clearInterval(timers, heap[job].intervalId)
         /\ jobs' = MapDelete(jobs, id)
         /\ ret = MapHas(jobs, id)
         /\ removed' = IF ret THEN removed \cup {r \in Refs : heap[r].id = id} ELSE removed
         /\ UNCHANGED <<running, heap, inflight, now, thrown>>

\* removeJob that also abandons the invocations of the job in flight
removeJobCancelsInFlight(id, ret) ==
    LET found == MapGet(jobs, id) IN
    IF found = {}
    THEN /\ ret = FALSE
         /\ UNCHANGED state
    ELSE LET job == CHOOSE r \in found : TRUE IN
         /\ timers' = clearInterval(timers, heap[job].intervalId)
         /\ jobs' = MapDelete(jobs, id)
         /\ ret = MapHas(jobs, id)
         /\ removed' = IF ret THEN removed \cup {r \in Refs : heap[r].id = id} ELSE removed
         /\ inflight' = {inv \in inflight : inv.job # job}
         /\ UNCHANGED <<running, heap, now, thrown>>

removeJob(id, ret) ==
    LET found == MapGet(jobs, id) IN
    IF found = {}
    THEN /\ ret = FALSE
         /\ UNCHANGED state
    ELSE LET job == CHOOSE r \in found : TRUE IN
         /\ timers' = clearInterval(timers, heap[job].intervalId)
         /\ jobs' = MapDelete(jobs, id)
         /\ ret = MapHas(jobs, id)
         /\ removed' = IF ret THEN removed \cup {r \in Refs : heap[r].id = id} ELSE removed
         /\ UNCHANGED <<running, heap, inflight, now, thrown>>

RECURSIVE startAll(_, _, _)
startAll(st, values, i) ==
    IF i > Len(values) THEN st
    ELSE startAll(IF st.heap[values[i]].enabled THEN startJob(st, values[i]) ELSE st,
                  values, i + 1)

start ==
    /\ running' = TRUE
    /\ SetStore(startAll(Store, MapValues(jobs), 1))
    /\ UNCHANGED <<jobs, inflight, now, removed, thrown>>

RECURSIVE stopAll(_, _, _)
stopAll(st, values, i) ==
    IF i > Len(values) THEN st
    ELSE LET job == values[i] IN
         stopAll(IF st.heap[job].intervalId # {}
                 THEN [st EXCEPT !.timers = clearInterval(st.timers, st.heap[job].intervalId),
                                 !.heap[job].intervalId = {}]
                 ELSE st,
                 values, i + 1)

\* stop that also marks every job it disarms as cancelled
stopCancels ==
    LET st == stopAll(Store, MapValues(jobs), 1) IN
    /\ running' = FALSE
    /\ heap' = [r \in DOMAIN heap |->
                  IF heap[r].intervalId # st.heap[r].intervalId
                  THEN [st.heap[r] EXCEPT !.status = "cancelled"]
                  ELSE st.heap[r]]
    /\ timers' = st.timers
    /\ UNCHANGED <<jobs, inflight, now, removed, thrown>>

\* stop that also puts every job of the registry back to pending
stopResetsStatus ==
    LET st == stopAll(Store, MapValues(jobs), 1) IN
    /\ running' = FALSE
    /\ heap' = [r \in DOMAIN heap |->
                  IF \E i \in DOMAIN jobs : jobs[i].value = r
                  THEN [st.heap[r] EXCEPT !.status = "pending"]
                  ELSE st.heap[r]]
    /\ timers' = st.timers
    /\ UNCHANGED <<jobs, inflight, now, removed, thrown>>

stop ==
    /\ running' = FALSE
    /\ SetStore(stopAll(Store, MapValues(jobs), 1))
    /\ UNCHANGED <<jobs, inflight, now, removed, thrown>>

\* enableJob without the test of this.running on line 89
enableJobArmsAlways(id, ret) ==
    LET found == MapGet(jobs, id) IN
    IF found = {}
    THEN /\ ret = FALSE
         /\ UNCHANGED state
    ELSE LET job == CHOOSE r \in found : TRUE
             st == [Store EXCEPT !.heap[job].enabled = TRUE]
         IN /\ SetStore(startJob(st, job))
            /\ ret = TRUE
            /\ UNCHANGED <<jobs, running, inflight, now, removed, thrown>>

enableJob(id, ret) ==
    LET found == MapGet(jobs, id) IN
    IF found = {}
    THEN /\ ret = FALSE
         /\ UNCHANGED state
    ELSE LET job == CHOOSE r \in found : TRUE
             st == [Store EXCEPT !.heap[job].enabled = TRUE]
         IN /\ SetStore(IF running THEN startJob(st, job) ELSE st)
            /\ ret = TRUE
            /\ UNCHANGED <<jobs, running, inflight, now, removed, thrown>>

\* disableJob with line 103 assigning true, as enableJob does
disableJobLeavesEnabled(id, ret) ==
    LET found == MapGet(jobs, id) IN
    IF found = {}
    THEN /\ ret = FALSE
         /\ UNCHANGED state
    ELSE LET job == CHOOSE r \in found : TRUE IN
         /\ heap' = [heap EXCEPT ![job].enabled = TRUE, ![job].intervalId = {}]
         /\ timers' = clearInterval(timers, heap[job].intervalId)
         /\ ret = TRUE
         /\ UNCHANGED <<jobs, running, inflight, now, removed, thrown>>

disableJob(id, ret) ==
    LET found == MapGet(jobs, id) IN
    IF found = {}
    THEN /\ ret = FALSE
         /\ UNCHANGED state
    ELSE LET job == CHOOSE r \in found : TRUE IN
         /\ heap' = [heap EXCEPT ![job].enabled = FALSE, ![job].intervalId = {}]
         /\ timers' = clearInterval(timers, heap[job].intervalId)
         /\ ret = TRUE
         /\ UNCHANGED <<jobs, running, inflight, now, removed, thrown>>

\* ret is a set: {} for undefined, else the job found
getJob(id, ret) ==
    /\ ret = MapGet(jobs, id)
    /\ UNCHANGED state

getAllJobs == MapValues(jobs)

getJobsByStatus(status) == SelectSeq(getAllJobs, LAMBDA j : heap[j].status = status)

\* ------------------------------------------------------------ the interval callback
\* Fire that also moves nextRun on to the following firing
FireUpdatesNextRun(h) ==
    LET job == timers[h].job IN
    /\ now >= timers[h].due
    /\ timers' = [timers EXCEPT ![h].due = now + timers[h].interval]
    /\ IF ~heap[job].enabled
       THEN UNCHANGED <<heap, inflight>>
       ELSE /\ heap' = [heap EXCEPT ![job].status = "running",
                                    ![job].nextRun = now + timers[h].interval]
            /\ inflight' = inflight \cup {[job |-> job, firedAt |-> now]}
    /\ UNCHANGED <<jobs, running, now, removed, thrown>>

\* Fire that stamps lastRun when the run begins
FireStampsLastRun(h) ==
    LET job == timers[h].job IN
    /\ now >= timers[h].due
    /\ timers' = [timers EXCEPT ![h].due = now + timers[h].interval]
    /\ IF ~heap[job].enabled
       THEN UNCHANGED <<heap, inflight>>
       ELSE /\ heap' = [heap EXCEPT ![job].status = "running", ![job].lastRun = {now}]
            /\ inflight' = inflight \cup {[job |-> job, firedAt |-> now]}
    /\ UNCHANGED <<jobs, running, now, removed, thrown>>

\* the timer with handle h is due: its callback runs up to the await
Fire(h) ==
    LET job == timers[h].job IN
    /\ now >= timers[h].due
    /\ timers' = [timers EXCEPT ![h].due = now + timers[h].interval]
    /\ IF ~heap[job].enabled
       THEN UNCHANGED <<heap, inflight>>
       ELSE /\ heap' = [heap EXCEPT ![job].status = "running"]
            /\ inflight' = inflight \cup {[job |-> job, firedAt |-> now]}
    /\ UNCHANGED <<jobs, running, now, removed, thrown>>

\* Resolve with line 150 storing the time the callback fired
ResolveStampsFiringTime(inv) ==
    /\ heap' = [heap EXCEPT ![inv.job].status = "completed",
                            ![inv.job].lastRun = {inv.firedAt}]
    /\ inflight' = inflight \ {inv}
    /\ UNCHANGED <<jobs, running, timers, now, removed, thrown>>

\* Resolve writing to the job now registered under the id of the record that
\* began the invocation, as a callback closing over the id would
ResolveById(inv) ==
    LET found == MapGet(jobs, heap[inv.job].id) IN
    /\ heap' = [r \in DOMAIN heap |->
                  IF r \in found
                  THEN [heap[r] EXCEPT !.status = "completed", !.lastRun = {now}]
                  ELSE heap[r]]
    /\ inflight' = inflight \ {inv}
    /\ UNCHANGED <<jobs, running, timers, now, removed, thrown>>

\* the awaited promise of invocation inv resolves: the try block continues
Resolve(inv) ==
    /\ heap' = [heap EXCEPT ![inv.job].status = "completed", ![inv.job].lastRun = {now}]
    /\ inflight' = inflight \ {inv}
    /\ UNCHANGED <<jobs, running, timers, now, removed, thrown>>

\* Reject with lastRun stamped in the catch block as well
RejectStampsLastRun(inv) ==
    /\ heap' = [heap EXCEPT ![inv.job].status = "failed", ![inv.job].lastRun = {now}]
    /\ inflight' = inflight \ {inv}
    /\ UNCHANGED <<jobs, running, timers, now, removed, thrown>>

\* Reject without the status write on line 152
RejectKeepsStatus(inv) ==
    /\ inflight' = inflight \ {inv}
    /\ UNCHANGED <<jobs, running, heap, timers, now, removed, thrown>>

\* Reject that also disarms the job that failed
RejectStopsTimer(inv) ==
    /\ heap' = [heap EXCEPT ![inv.job].status = "failed", ![inv.job].intervalId = {}]
    /\ timers' = clearInterval(timers, heap[inv.job].intervalId)
    /\ inflight' = inflight \ {inv}
    /\ UNCHANGED <<jobs, running, now, removed, thrown>>

\* the awaited promise of invocation inv rejects: the catch block handles it
Reject(inv) ==
    /\ heap' = [heap EXCEPT ![inv.job].status = "failed"]
    /\ inflight' = inflight \ {inv}
    /\ UNCHANGED <<jobs, running, timers, now, removed, thrown>>

\* Date.now() moves on
Tick ==
    /\ now' = now + TickMs
    /\ UNCHANGED <<jobs, running, heap, timers, inflight, removed, thrown>>

\* the caller invokes one operation of the scheduler
\* ret is the returned value in words, job the job reference returned if any
Call(name, id, ret, job, op) ==
    /\ steps < MaxSteps
    /\ op
    /\ lastOp' = [op |-> name, id |-> id, ret |-> ret, job |-> job]
    /\ steps' = IF state' = state THEN steps ELSE steps + 1

\* the event loop runs one timer callback or continuation, or time passes
Event(name, ev) ==
    /\ steps < MaxSteps
    /\ ev
    /\ lastOp' = [op |-> name, id |-> "", ret |-> "void", job |-> {}]
    /\ steps' = steps + 1

\* ------------------------------------------------------------ specification
Init ==
    /\ jobs = <<>>
    /\ running = FALSE
    /\ heap = <<>>
    /\ timers = <<>>
    /\ inflight = {}
    /\ now = 0
    /\ removed = {}
    /\ thrown = FALSE
    /\ steps = 0
    /\ lastOp = [op |-> "new", id |-> "", ret |-> "void", job |-> {}]

Boolean(b) == IF b THEN "true" ELSE "false"

Next ==
    \/ \E id \in Ids, name \in Names, schedule \in Schedules, action \in Actions :
          \E ret \in 1..(Len(heap) + 1) :
             Call("addJob", id, "job", {ret}, addJob(id, name, schedule, action, ret))
    \/ \E id \in Ids, ret \in BOOLEAN :
          Call("removeJob", id, Boolean(ret), {}, removeJob(id, ret))
    \/ Call("start", "", "void", {}, start)
    \/ Call("stop", "", "void", {}, stop)
    \/ \E id \in Ids, ret \in BOOLEAN :
          Call("enableJob", id, Boolean(ret), {}, enableJob(id, ret))
    \/ \E id \in Ids, ret \in BOOLEAN :
          Call("disableJob", id, Boolean(ret), {}, disableJob(id, ret))
    \/ \E id \in Ids, ret \in SUBSET Refs :
          Call("getJob", id, IF ret = {} THEN "undefined" ELSE "job", ret, getJob(id, ret))
    \/ \E h \in DOMAIN timers : Event("fire", Fire(h))
    \/ \E inv \in inflight : Event("resolve", Resolve(inv))
    \/ \E inv \in inflight : Event("reject", Reject(inv))
    \/ Event("tick", Tick)

Spec == Init /\ [][Next]_vars

\* ------------------------------------------------------------ a started scheduler
\* the state after construction and a call of start() on the empty registry
StartedInit ==
    /\ jobs = <<>>
    /\ running = TRUE
    /\ heap = <<>>
    /\ timers = <<>>
    /\ inflight = {}
    /\ now = 0
    /\ removed = {}
    /\ thrown = FALSE
    /\ steps = 0
    /\ lastOp = [op |-> "start", id |-> "", ret |-> "void", job |-> {}]

StartedSpec == StartedInit /\ [][Next]_vars

\* ------------------------------------------------------------ interval interpretation
\* One job is registered under any schedule string of at most MaxLen
\* characters, before or after start(); the clock stands still.
Alphabet == {"0", "1", "2", "5", "m", "h", "d", "a", "b", "c", "-", "."}

\* the number a string of decimal digits denotes, read from the left
RECURSIVE Decimal(_, _, _)
Decimal(s, i, acc) ==
    IF i > Len(s) THEN acc
    ELSE Decimal(s, i + 1,
                 acc * 10 + (CHOOSE v \in 0..9 :
                    s[i] = <<"0", "1", "2", "3", "4", "5", "6", "7", "8", "9">>[v + 1]))

\* the strings whose leading number, taken in the unit that follows it, stays
\* below 2^31 ms (35791 minutes): the integers of the checker end there, the
\* numbers of the program are exact up to 2^53
InRange(s) ==
    LET lead == {k \in 0..Len(s) : \A i \in 1..k : s[i] \in Digit}
        k == CHOOSE x \in lead : \A y \in lead : y <= x
        unit == IF k < Len(s) THEN s[k + 1] ELSE "m"
        minutes == IF unit = "d" THEN 1440 ELSE IF unit = "h" THEN 60 ELSE 1
    IN Decimal(SubSeq(s, 1, k), 1, 0) * minutes <= 35791

ScheduleStrings ==
    {s \in UNION {[1..n -> Alphabet] : n \in 0..MaxLen} : InRange(s)}

ParseNext ==
    \/ /\ heap = <<>>
       /\ \E id \in Ids, name \in Names, schedule \in ScheduleStrings, action \in Actions :
             Call("addJob", id, "job", {1}, addJob(id, name, schedule, action, 1))
    \/ Call("start", "", "void", {}, start)

ParseSpec == Init /\ [][ParseNext]_vars

\* ------------------------------------------------------------ unbounded runs
\* Runs without a bound on their length, for a scheduler used under one id,
\* whose jobs are due every two minutes and whose actions always fail. The state stays finite
\* because time is kept relative to the present: when a minute passes, the
\* clock keeps its reading and every stored time moves back one minute, a
\* time that is already not later than the origin staying there.
LiveIds == {"a"}

LiveSchedules == {<<"2", "m">>}

Back(t) == IF t > TickMs THEN t - TickMs ELSE 0

LiveTick ==
    /\ heap' = [r \in DOMAIN heap |->
                  [heap[r] EXCEPT !.nextRun = Back(@),
                                  !.lastRun = {Back(t) : t \in @}]]
    /\ timers' = [h \in DOMAIN timers |-> [timers[h] EXCEPT !.due = Back(@)]]
    /\ inflight' = {[inv EXCEPT !.firedAt = Back(@)] : inv \in inflight}
    /\ UNCHANGED <<jobs, running, now, removed, thrown>>

LiveCall(name, id, ret, job, op) ==
    /\ op
    /\ lastOp' = [op |-> name, id |-> id, ret |-> ret, job |-> job]
    /\ UNCHANGED steps

\* the event loop runs a callback or continuation of record job
LiveEvent(name, job, ev) ==
    /\ ev
    /\ lastOp' = [op |-> name, id |-> "", ret |-> "void", job |-> job]
    /\ UNCHANGED steps

LiveFire(h) ==
    /\ h \in DOMAIN timers
    /\ LiveEvent("fire", {timers[h].job}, Fire(h))

LiveNext ==
    \/ /\ Len(heap) < MaxJobs
       /\ \E id \in LiveIds, name \in Names, schedule \in LiveSchedules, action \in Actions :
             LiveCall("addJob", id, "job", {Len(heap) + 1},
                      addJob(id, name, schedule, action, Len(heap) + 1))
    \/ \E id \in LiveIds, ret \in BOOLEAN :
          LiveCall("removeJob", id, Boolean(ret), {}, removeJob(id, ret))
    \/ LiveCall("start", "", "void", {}, start)
    \/ LiveCall("stop", "", "void", {}, stop)
    \/ \E id \in LiveIds, ret \in BOOLEAN :
          LiveCall("enableJob", id, Boolean(ret), {}, enableJob(id, ret))
    \/ \E id \in LiveIds, ret \in BOOLEAN :
          LiveCall("disableJob", id, Boolean(ret), {}, disableJob(id, ret))
    \/ \E h \in 1..MaxJobs : LiveFire(h)
    \/ \E inv \in inflight : LiveEvent("reject", {inv.job}, Reject(inv))
    \/ LiveEvent("tick", {}, LiveTick)

\* time passes, and a timer that stays due has its callback run
LiveSpec ==
    /\ Init
    /\ [][LiveNext]_vars
    /\ WF_vars(LiveEvent("tick", {}, LiveTick))
    /\ \A h \in 1..MaxJobs : WF_vars(LiveFire(h))

\* ------------------------------------------------------------ properties
\* the records currently in the registry
Registered == {jobs[i].value : i \in DOMAIN jobs}

\* the active environment timers whose callback closes over record r
TimersOf(r) == {h \in DOMAIN timers : timers[h].job = r}

\* the invocations that begin in a step
Begun == inflight' \ inflight

\* C1: every job in the registry has a stored timer handle if and only if
\* the registry is running and the job is enabled, and the stored handle is
\* that of the one active timer armed for the job.
ArmDisarmParity ==
    \A r \in Registered :
       /\ (heap[r].intervalId # {}) <=> (running /\ heap[r].enabled)
       /\ TimersOf(r) = heap[r].intervalId

\* running, with one registered job armed and another disabled and disarmed
ArmDisarmParityWitness ==
    /\ running
    /\ \E r \in Registered : heap[r].enabled /\ heap[r].intervalId # {}
    /\ \E r \in Registered : ~heap[r].enabled /\ heap[r].intervalId = {}

\* C2: once removeJob(id) has returned true, no invocation of an action that
\* was registered under that id begins.
RemovalStopsFutureFirings == [][\A inv \in Begun : inv.job \notin removed]_vars

\* C3: disableJob(id) returning true leaves the job's enabled flag false, the
\* flag stays false until enableJob(id), and while it is false no invocation
\* of the job's action begins and no timer firing changes the job.
NoFiringWhileDisabled ==
    [][/\ (lastOp'.op = "disableJob" /\ lastOp'.ret = "true") =>
              /\ MapHas(jobs, lastOp'.id)
              /\ \A r \in MapGet(jobs, lastOp'.id) : ~heap'[r].enabled
       /\ \A r \in Refs : ~heap[r].enabled =>
              /\ heap'[r].enabled =>
                    /\ lastOp'.op = "enableJob"
                    /\ lastOp'.ret = "true"
                    /\ r \in MapGet(jobs, lastOp'.id)
              /\ \A inv \in Begun : inv.job # r
              /\ lastOp'.op = "fire" => heap'[r] = heap[r]
      ]_vars

\* a registered job is disabled, the registry runs, and the clock has reached
\* the time at which the job was next to run
NoFiringWhileDisabledWitness ==
    /\ running
    /\ lastOp.op = "tick"
    /\ \E r \in Registered : ~heap[r].enabled /\ now >= heap[r].nextRun

\* C4: no job ever has two active timers, two invocations of a job begin at
\* least one interval apart, and right after start() every enabled job in the
\* registry has exactly one active timer, the one whose handle it stores,
\* armed for one interval from now.
IdempotentStart ==
    /\ \A r \in Refs : Cardinality(TimersOf(r)) <= 1
    /\ \A i1, i2 \in inflight :
          (i1.job = i2.job /\ i1.firedAt < i2.firedAt) =>
             i2.firedAt - i1.firedAt >= parseSchedule(heap[i1.job].schedule)
    /\ lastOp.op = "start" =>
          /\ running
          /\ \A r \in Registered : heap[r].enabled =>
                /\ TimersOf(r) = heap[r].intervalId
                /\ \A h \in TimersOf(r) :
                      timers[h].due = now + parseSchedule(heap[r].schedule)
                /\ Cardinality(TimersOf(r)) = 1

\* start() has just returned for a job that had already been armed and fired
IdempotentStartWitness ==
    /\ lastOp.op = "start"
    /\ \E r \in Registered :
          /\ heap[r].enabled
          /\ heap[r].status # "pending"
          /\ Cardinality(TimersOf(r)) = 1

\* C5: addJob on an id already in the registry fails with DuplicateIdError and
\* leaves the registry, the existing record and its timer as they were.
DuplicateAddFails ==
    [][(lastOp'.op = "addJob" /\ MapHas(jobs, lastOp'.id)) =>
          /\ thrown'
          /\ jobs' = jobs
          /\ timers' = timers
          /\ \A r \in Refs : heap'[r] = heap[r]
      ]_vars

\* C6: every active environment timer is the handle stored on a job record
\* that is in the registry.
NoLeakedTimer ==
    \A h \in DOMAIN timers : \E r \in Registered : heap[r].intervalId = {h}

\* C7: when an invocation fails, its job's status becomes failed and nothing
\* else changes: not the job's lastRun or timer handle, not the timers, the
\* running flag, the registry or any other job; and no error escapes.
ActionFailureContained ==
    [][lastOp'.op = "reject" =>
          \E inv \in inflight :
             /\ inflight' = inflight \ {inv}
             /\ heap' = [heap EXCEPT ![inv.job].status = "failed"]
             /\ heap'[inv.job].lastRun = heap[inv.job].lastRun
             /\ heap'[inv.job].intervalId = heap[inv.job].intervalId
             /\ UNCHANGED <<jobs, running, timers, removed>>
             /\ ~thrown'
      ]_vars

\* an invocation of a registered, armed job has just failed while the registry
\* runs and another job is registered
ActionFailureContainedWitness ==
    /\ lastOp.op = "reject"
    /\ running
    /\ \E r \in Registered :
          /\ heap[r].status = "failed"
          /\ heap[r].lastRun = {}
          /\ heap[r].intervalId # {}
          /\ TimersOf(r) = heap[r].intervalId
    /\ Cardinality(Registered) = 2

\* the timer whose callback runs in a fire step
Fired == {h \in DOMAIN timers : timers'[h].due # timers[h].due}

UnknownIdsSignalledByValue ==
    [][(/\ lastOp'.op \in {"enableJob", "disableJob", "removeJob", "getJob"}
        /\ ~MapHas(jobs, lastOp'.id)) =>
          /\ lastOp'.ret = (IF lastOp'.op = "getJob" THEN "undefined" ELSE "false")
          /\ lastOp'.job = {}
          /\ state' = state
          /\ ~thrown'
      ]_vars

\* removeJob has just returned false while the registry holds an armed job
UnknownIdsSignalledByValueWitness ==
    /\ lastOp.op = "removeJob"
    /\ lastOp.ret = "false"
    /\ running
    /\ \E r \in Registered : heap[r].intervalId # {}

\* C10: stop() sets running to false, disarms the timer of every job in the
\* registry and clears its stored handle, and changes nothing else; and no
\* job's status is ever cancelled.
StopKeepsJobs ==
    [][/\ lastOp'.op = "stop" =>
             /\ ~running'
             /\ \A r \in Refs :
                   heap'[r] = IF r \in Registered
                              THEN [heap[r] EXCEPT !.intervalId = {}]
                              ELSE heap[r]
             /\ timers' = clearInterval(timers,
                                        UNION {heap[r].intervalId : r \in Registered})
             /\ UNCHANGED <<jobs, inflight, now, removed, thrown>>
       /\ \A r \in DOMAIN heap' : heap'[r].status # "cancelled"
      ]_vars

\* stop() has just returned for a job that had completed a run
StopKeepsJobsWitness ==
    /\ lastOp.op = "stop"
    /\ \E r \in Registered :
          /\ heap[r].status = "completed"
          /\ heap[r].lastRun # {}
          /\ heap[r].enabled
          /\ heap[r].intervalId = {}

\* C11: addJob on an id not in the registry returns and stores a new job with
\* enabled true, status pending, no lastRun and nextRun one interval from now;
\* the job is armed by the call if and only if the registry is running, and
\* no other job, timer or the running flag changes.
AddJobOnFreshId ==
    [][(lastOp'.op = "addJob" /\ ~MapHas(jobs, lastOp'.id)) =>
          LET job == Len(heap) + 1 IN
          /\ lastOp'.job = {job}
          /\ Len(heap') = job
          /\ jobs' = Append(jobs, [key |-> lastOp'.id, value |-> job])
          /\ heap'[job].id = lastOp'.id
          /\ heap'[job].enabled
          /\ heap'[job].status = "pending"
          /\ heap'[job].lastRun = {}
          /\ heap'[job].nextRun = now + parseSchedule(heap'[job].schedule)
          /\ (heap'[job].intervalId # {}) <=> running
          /\ DOMAIN timers' = (DOMAIN timers) \cup heap'[job].intervalId
          /\ \A h \in heap'[job].intervalId :
                /\ h \notin DOMAIN timers
                /\ timers'[h] = [job |-> job,
                                 interval |-> parseSchedule(heap'[job].schedule),
                                 due |-> heap'[job].nextRun]
          /\ \A h \in DOMAIN timers : timers'[h] = timers[h]
          /\ \A r \in Refs : heap'[r] = heap[r]
          /\ UNCHANGED <<running, inflight, now, thrown>>
      ]_vars

\* addJob on a fresh id has just armed its job beside another armed job
AddJobOnFreshIdWitness ==
    /\ lastOp.op = "addJob"
    /\ running
    /\ Len(heap) = 2
    /\ Cardinality(Registered) = 2
    /\ \A r \in Registered : TimersOf(r) # {} /\ TimersOf(r) = heap[r].intervalId

IsNumber(s) == s # <<>> /\ \A i \in DOMAIN s : s[i] \in Digit

\* the interval the interpretation table gives a schedule string
TableInterval(s) ==
    LET front == SubSeq(s, 1, Len(s) - 1)
        unit == s[Len(s)]
    IN IF IsNumber(s) THEN Decimal(s, 1, 0) * 60000
       ELSE IF s # <<>> /\ IsNumber(front) /\ unit = "m" THEN Decimal(front, 1, 0) * 60000
       ELSE IF s # <<>> /\ IsNumber(front) /\ unit = "h" THEN Decimal(front, 1, 0) * 3600000
       ELSE IF s # <<>> /\ IsNumber(front) /\ unit = "d" THEN Decimal(front, 1, 0) * 86400000
       ELSE 60000

\* C12: the interval of every schedule string is the one the table gives:
\* digits with m, h, d or no unit are minutes, hours, days or minutes, any
\* other string is 60000 ms; "5m", "2h", "1d", "10", "abc", "" are 300000,
\* 7200000, 86400000, 600000, 60000, 60000. Both nextRun and the timer's
\* period use it, and no schedule string raises.
IntervalTable ==
    /\ ~thrown
    /\ \A r \in Refs :
          LET s == heap[r].schedule
              ms == heap[r].nextRun - now
          IN /\ ms = TableInterval(s)
             /\ \A h \in TimersOf(r) : timers[h].interval = ms
             /\ s = <<"5", "m">> => ms = 300000
             /\ s = <<"2", "h">> => ms = 7200000
             /\ s = <<"1", "d">> => ms = 86400000
             /\ s = <<"1", "0">> => ms = 600000
             /\ s = <<"a", "b", "c">> => ms = 60000
             /\ s = <<>> => ms = 60000

\* a job registered as "2h" is armed with a period of two hours
IntervalTableWitness ==
    \E r \in Refs :
       /\ heap[r].schedule = <<"2", "h">>
       /\ TimersOf(r) # {}
       /\ \A h \in TimersOf(r) : timers[h].interval = 7200000

\* the invocations that settle in a step
Settled == inflight \ inflight'

\* C13: an invocation in flight is never cancelled: disableJob, removeJob and
\* stop leave every invocation in flight, an invocation leaves only by
\* completing or failing, and then it writes completed or failed to the record
\* that began it, whether or not that record is still enabled, registered or
\* armed.
InFlightNeverCancelled ==
    [][/\ lastOp'.op \in {"disableJob", "removeJob", "stop"} => inflight' = inflight
       /\ Settled # {} => lastOp'.op \in {"resolve", "reject"}
       /\ lastOp'.op \in {"resolve", "reject"} =>
             \E inv \in inflight :
                /\ Settled = {inv}
                /\ heap'[inv.job].status =
                      (IF lastOp'.op = "resolve" THEN "completed" ELSE "failed")
      ]_vars

\* an invocation has completed on a job that was disabled while it was in
\* flight
InFlightNeverCancelledWitness ==
    /\ lastOp.op = "resolve"
    /\ \E r \in Registered :
          /\ ~heap[r].enabled
          /\ heap[r].intervalId = {}
          /\ heap[r].status = "completed"

\* C14: a job's status is running only while an invocation of that job is in
\* flight.
RunningOnlyWhileInFlight ==
    \A r \in Refs : heap[r].status = "running" => \E inv \in inflight : inv.job = r

\* a removed job is still running its action
RunningOnlyWhileInFlightWitness ==
    \E r \in Refs \ Registered :
       /\ heap[r].status = "running"
       /\ \E inv \in inflight : inv.job = r

\* C15: a job whose status is running keeps it in every step in which none of
\* its invocations finishes, whatever is called and however often its timer
\* fires again; a further firing of the enabled job begins a further
\* invocation.
HungActionHoldsRunning ==
    [][\A r \in Refs :
          (heap[r].status = "running" /\ \A inv \in Settled : inv.job # r) =>
             /\ heap'[r].status = "running"
             /\ (/\ lastOp'.op = "fire"
                 /\ heap[r].enabled
                 /\ \E h \in Fired : timers[h].job = r) =>
                   \E inv \in Begun : inv.job = r
      ]_vars

\* the timer of a job has fired twice and neither invocation has finished
HungActionHoldsRunningWitness ==
    \E r \in Registered :
       /\ heap[r].status = "running"
       /\ heap[r].enabled
       /\ Cardinality({inv \in inflight : inv.job = r}) = 2

\* the step arms the timer of record r: start for an enabled job of the
\* registry, enableJob or addJob while running for the job they name or build
Armed(r) ==
    \/ lastOp'.op = "start" /\ r \in Registered /\ heap[r].enabled
    \/ lastOp'.op = "enableJob" /\ running /\ MapGet(jobs, lastOp'.id) = {r}
    \/ lastOp'.op = "addJob" /\ running /\ lastOp'.job = {r}

\* C16: a job's nextRun changes only in a step that arms its timer, which is
\* a start, or an enableJob or addJob while running; an arming step leaves
\* nextRun at now + interval(schedule), the first due time of the timer it
\* installs, and a new record starts with that value; firings, completions,
\* failures, stop, disableJob, removeJob and the passing of time leave nextRun
\* unchanged; and nextRun is never less than the time at which it was computed.
NextRunOnArming ==
    [][/\ \A r \in Refs : heap'[r].nextRun # heap[r].nextRun => Armed(r)
       /\ \A r \in DOMAIN heap' :
             (Armed(r) \/ r \notin Refs) =>
                /\ heap'[r].nextRun = now + parseSchedule(heap'[r].schedule)
                /\ heap'[r].nextRun >= now
                /\ Armed(r) =>
                      /\ heap'[r].intervalId # {}
                      /\ \A h \in heap'[r].intervalId :
                            /\ h \in DOMAIN timers'
                            /\ timers'[h].job = r
                            /\ timers'[h].due = heap'[r].nextRun
       /\ lastOp'.op \in {"fire", "resolve", "reject", "stop", "disableJob",
                          "removeJob", "tick", "getJob"} =>
             \A r \in Refs : heap'[r].nextRun = heap[r].nextRun
      ]_vars

\* a job that has run and failed is re-armed by enableJob, one interval after
\* its first firing time
NextRunOnArmingWitness ==
    /\ lastOp.op = "enableJob"
    /\ running
    /\ \E r \in Registered :
          /\ heap[r].status = "failed"
          /\ heap[r].nextRun = now + parseSchedule(heap[r].schedule)
          /\ TimersOf(r) # {}
          /\ \A h \in TimersOf(r) : timers[h].due = heap[r].nextRun

\* an invocation of record r has just failed
Failed(r) == lastOp.op = "reject" /\ lastOp.job = {r}

\* the timer of record r has just fired and begun an invocation
Attempted(r) ==
    /\ lastOp.op = "fire"
    /\ lastOp.job = {r}
    /\ \E inv \in inflight : inv.job = r /\ inv.firedAt = now

\* record r is no longer an enabled job of a running registry
Withdrawn(r) == ~running \/ r \notin Registered \/ ~heap[r].enabled

\* the timer of record r has just been armed again
Rearmed(r) ==
    \/ lastOp.op = "start"
    \/ lastOp.op = "enableJob" /\ lastOp.id = heap[r].id

\* C17 as claimed: while the registry stays running and the job enabled and
\* registered, every failed invocation is followed by the beginning of
\* another invocation of that job.
FailingJobRetried ==
    \A r \in 1..MaxJobs : (r \in Refs /\ Failed(r)) ~> (Attempted(r) \/ Withdrawn(r))

\* C17 as amended: every failed invocation is followed by the beginning of
\* another invocation of that job, unless the registry stops, the job is
\* disabled or replaced or removed, or start or enableJob arms its timer anew.
FailingJobRetriedUnlessRearmed ==
    \A r \in 1..MaxJobs :
       (r \in Refs /\ Failed(r)) ~> (Attempted(r) \/ Withdrawn(r) \/ Rearmed(r))

\* an invocation of an armed, enabled job of a running registry has just
\* failed
FailingJobRetriedUnlessRearmedWitness ==
    \E r \in Registered :
       /\ Failed(r)
       /\ running
       /\ heap[r].enabled
       /\ heap[r].status = "failed"
       /\ TimersOf(r) # {}

\* C18: while the registry is not running, no invocation of any job's action
\* begins.
NoInvocationWhileStopped ==
    [][~running => Begun = {}]_vars

\* C19: an invocation belongs to the record that began it: when it completes
\* or fails, only that record changes, also when another record has since
\* been registered under the same id; a record leaves pending only by a
\* firing of its own timer, and a new record is pending and has no lastRun.
InvocationBelongsToRecord ==
    [][/\ lastOp'.op \in {"resolve", "reject"} =>
             \E inv \in inflight :
                /\ Settled = {inv}
                /\ \A r \in Refs \ {inv.job} : heap'[r] = heap[r]
       /\ \A r \in Refs :
             (heap[r].status = "pending" /\ heap'[r].status # "pending") =>
                /\ lastOp'.op = "fire"
                /\ \E h \in Fired : timers[h].job = r
       /\ \A r \in DOMAIN heap' \ DOMAIN heap :
             heap'[r].status = "pending" /\ heap'[r].lastRun = {}
      ]_vars

\* the invocation of a removed job has completed after a new job was
\* registered under its id, and the new job is still pending
InvocationBelongsToRecordWitness ==
    /\ lastOp.op = "resolve"
    /\ \E old \in removed, new \in Registered :
          /\ old # new
          /\ heap[old].id = heap[new].id
          /\ heap[old].status = "completed"
          /\ heap[old].lastRun = {now}
          /\ heap[new].status = "pending"
          /\ heap[new].lastRun = {}

\* C20: lastRun records successful completions only: a new record has none;
\* a record's lastRun changes only when one of its invocations completes
\* successfully, and then it becomes the time of that completion, which is not
\* earlier than the value it replaces; it is never taken away and never ahead
\* of the clock; no call, firing, failure or passing of time writes it.
LastRunOnSuccessOnly ==
    [][/\ \A r \in Refs :
             /\ heap'[r].lastRun # heap[r].lastRun =>
                   /\ lastOp'.op = "resolve"
                   /\ \E inv \in Settled : inv.job = r
             /\ heap[r].lastRun # {} => heap'[r].lastRun # {}
             /\ \A t \in heap[r].lastRun : t <= now
       /\ lastOp'.op = "resolve" =>
             \A inv \in Settled :
                /\ heap'[inv.job].lastRun = {now}
                /\ \A t \in heap[inv.job].lastRun : t <= now
       /\ \A r \in DOMAIN heap' \ DOMAIN heap : heap'[r].lastRun = {}
      ]_vars

\* a minute has passed since a job's only run completed
LastRunOnSuccessOnlyWitness ==
    /\ lastOp.op = "tick"
    /\ \E r \in Registered :
          /\ heap[r].status = "completed"
          /\ heap[r].lastRun = {now - TickMs}

====
